---------------------------- MODULE Spec2Model ----------------------------
(***************************************************************************)
(* axum-turnstile: the Turnstile verification gate.                        *)
(*                                                                         *)
(*   lib.rs         TurnstileConfig, VerifyRequest, VerifyResponse,        *)
(*                  VerifiedTurnstile and its FromRequestParts extractor   *)
(*   layer.rs       TurnstileLayer                                         *)
(*   middleware.rs  TurnstileMiddleware: poll_ready and call               *)
(*   verifier.rs    verify_token                                           *)
(*                                                                         *)
(* A request task is one future returned by TurnstileMiddleware::call.  It *)
(* is suspended at three awaits: send() and json() in verify_token and     *)
(* inner.call(req) in the middleware.  Each await is one step of the task. *)
(***************************************************************************)
EXTENDS Integers, Sequences, FiniteSets, TLC

VARIABLES builder,   \* the application's TurnstileConfig and how it was built
          gate,      \* the TurnstileMiddleware: [inner, config]
          clones,    \* how many clones of the inner service were taken
          ready,     \* inner instances whose poll_ready returned Ready(Ok)
          tasks      \* one record per request slot, see IdleTask

vars == <<builder, gate, clones, ready, tasks>>

(***************************************************************************)
(* Bounds of the model.                                                    *)
(***************************************************************************)
NumTasks == 2        \* request slots (futures alive at the same time)
MaxCalls == 2        \* calls of TurnstileMiddleware::call in one behaviour

Tasks == 1..NumTasks

(***************************************************************************)
(* Option<T> as a sequence of length 0 or 1.                               *)
(***************************************************************************)
None == <<>>
Some(x) == <<x>>
IsSome(o) == Len(o) = 1
Unwrap(o) == o[1]

(***************************************************************************)
(* Status codes used by the crate.                                         *)
(***************************************************************************)
BAD_REQUEST == 400
UNAUTHORIZED == 401
FORBIDDEN == 403
INTERNAL_SERVER_ERROR == 500

(***************************************************************************)
(* TurnstileConfig and its builder (lib.rs).                               *)
(***************************************************************************)
DefaultHeaderName == "CF-Turnstile-Token"
DefaultVerifyUrl == "https://challenges.cloudflare.com/turnstile/v0/siteverify"

new(secret) ==
    [secret |-> secret,
     header_name |-> DefaultHeaderName,
     verify_url |-> DefaultVerifyUrl]

with_header_name(self, name) == [self EXCEPT !.header_name = name]

\* A builder that starts again from the default header name.
with_verify_url_ResetsName(self, url) ==
    [self EXCEPT !.verify_url = url, !.header_name = "CF-Turnstile-Token"]

with_verify_url(self, url) == [self EXCEPT !.verify_url = url]

(***************************************************************************)
(* TurnstileLayer (layer.rs): a layer holds a config; layer(inner) builds  *)
(* the middleware around `inner` with a clone of that config.              *)
(***************************************************************************)
TurnstileLayer_new(config) == [config |-> config]

from_secret(secret) == TurnstileLayer_new(new(secret))

TurnstileMiddleware_new(inner, config) == [inner |-> inner, config |-> config]

layer(self, inner) == TurnstileMiddleware_new(inner, self.config)

(***************************************************************************)
(* Inputs of the builder.                                                  *)
(***************************************************************************)
Secrets == {"test-secret"}
HeaderNameArgs == {"X-Proof", ""}
VerifyUrlArgs == {""}

Configs ==
    LET base == {new(s) : s \in Secrets}
        named == base \cup {with_header_name(c, n) : c \in base, n \in HeaderNameArgs}
    IN  named \cup {with_verify_url(c, u) : c \in named, u \in VerifyUrlArgs}

(***************************************************************************)
(* http::HeaderMap.  Names are stored lower-cased; a lookup by string      *)
(* lower-cases the key and finds nothing when the key is no valid header   *)
(* name.  A value is a byte string; to_str succeeds only on visible ASCII. *)
(***************************************************************************)
ToLower(s) ==
    CASE s = "CF-Turnstile-Token" -> "cf-turnstile-token"
      [] s = "X-Proof" -> "x-proof"
      [] OTHER -> s

ValidHeaderName(s) == s # ""

HeaderValue(text, ascii) == [text |-> text, ascii |-> ascii]

to_str(v) == IF v.ascii THEN Some(v.text) ELSE None

RECURSIVE HeaderGet(_, _)
HeaderGet(headers, name) ==
    IF ~ValidHeaderName(name) \/ headers = <<>> THEN None
    ELSE IF Head(headers).name = ToLower(name) THEN Some(Head(headers).value)
    ELSE HeaderGet(Tail(headers), name)

Header(n, v) == [name |-> n, value |-> v]

\* A Gate that reads the default header whatever the configuration names.
ExtractToken_DefaultHeader(headers, config) ==
    LET v == HeaderGet(headers, DefaultHeaderName)
    IN  IF IsSome(v) THEN to_str(Unwrap(v)) ELSE None

\* A Gate that reads the header value lossily instead of with to_str.
ExtractToken_Lossy(headers, config) ==
    LET v == HeaderGet(headers, config.header_name)
    IN  IF IsSome(v) THEN Some(Unwrap(v).text) ELSE None

(***************************************************************************)
(* middleware.rs 43-46: the token is the string form of the first value of *)
(* the configured header.                                                  *)
(***************************************************************************)
ExtractToken(headers, config) ==
    LET v == HeaderGet(headers, config.header_name)
    IN  IF IsSome(v) THEN to_str(Unwrap(v)) ELSE None

(***************************************************************************)
(* Requests.  Extensions is a type map: the set of the types it holds.     *)
(***************************************************************************)
VerifiedTurnstile == "VerifiedTurnstile"

Request(headers, ext) ==
    [method |-> "GET", uri |-> "/test", headers |-> headers,
     body |-> "", extensions |-> ext]

insert(extensions, marker) == extensions \cup {marker}

Parts(req) == [method |-> req.method, uri |-> req.uri,
               headers |-> req.headers, extensions |-> req.extensions]

\* An extractor that hands out the marker whether or not one is present.
from_request_parts_Lenient(parts) ==
    [result |-> [ok |-> TRUE, status |-> 0], parts |-> parts]

(***************************************************************************)
(* lib.rs 175-181: the extractor.  It is handed the parts mutably; the     *)
(* result is the pair of what it returns and the parts it leaves.          *)
(***************************************************************************)
from_request_parts(parts) ==
    [result |-> IF VerifiedTurnstile \in parts.extensions
                THEN [ok |-> TRUE, status |-> 0]
                ELSE [ok |-> FALSE, status |-> UNAUTHORIZED],
     parts |-> parts]

(***************************************************************************)
(* Response bodies and log lines are sequences of fragments; a fragment    *)
(* keeps where its text comes from: a literal of the crate, the Display of *)
(* an error, the secret, the error codes of the service, the next stage.   *)
(***************************************************************************)
Frag(src, text) == [src |-> src, text |-> text]
Lit(text) == Frag("literal", text)

Ok(status, body) == [ok |-> TRUE, status |-> status, body |-> body]
Err(e) == [ok |-> FALSE, status |-> 0, body |-> <<Frag("inner-error", e)>>]

\* middleware.rs 51-54
MissingTokenResponse == Ok(BAD_REQUEST, <<Lit("Missing Turnstile token")>>)

\* A Gate that answers a rejected token with 401.
ForbiddenResponse_Unauthorized ==
    Ok(UNAUTHORIZED, <<Lit("Turnstile verification failed")>>)

\* middleware.rs 65-68
ForbiddenResponse == Ok(FORBIDDEN, <<Lit("Turnstile verification failed")>>)

\* A Gate that puts the Display of the error in the body.
ErrorResponse_Leaky(e) ==
    Ok(INTERNAL_SERVER_ERROR, <<Lit("Verification error: "), Frag("error", e)>>)

\* A Gate that hands the verifier's error to its caller as its own error.
ErrorResponse_Propagates(e) == Err(e)

\* middleware.rs 71-74
ErrorResponse(e) == Ok(INTERNAL_SERVER_ERROR, <<Lit("Verification error")>>)

\* middleware.rs 70
ErrorLog(e) ==
    [prefix |-> "Turnstile verification error: ", src |-> "error",
     text |-> e, codes |-> <<>>]

\* verifier.rs 24
CodesLog(errors) ==
    [prefix |-> "Turnstile verification failed: ", src |-> "error-codes",
     text |-> "", codes |-> errors]

(***************************************************************************)
(* verify_token (verifier.rs).  Its result is Ok(bool) or Err(cause).      *)
(***************************************************************************)
VOk(b) == [ok |-> TRUE, value |-> b, error |-> ""]
VErr(e) == [ok |-> FALSE, value |-> FALSE, error |-> e]

\* lib.rs 152-156 and verifier.rs 11-15: the POST that is sent
VerifyRequest(secret, response) == [secret |-> secret, response |-> response]

Post(token, config) ==
    [url |-> config.verify_url,
     json |-> VerifyRequest(config.secret, token)]

\* reqwest refuses a URL it cannot parse before anything is sent
ValidUrl(u) == u # ""

\* A verifier that sends the POST twice.
SendPosts_Twice(token, config) ==
    IF ValidUrl(config.verify_url)
    THEN <<Post(token, config), Post(token, config)>> ELSE <<>>

\* verifier.rs 10-17: what one call of verify_token puts on the wire
SendPosts(token, config) ==
    IF ValidUrl(config.verify_url) THEN <<Post(token, config)>> ELSE <<>>

(***************************************************************************)
(* What the verification service and the network can answer.  send()      *)
(* yields an error or a response with any status; reqwest does not turn a  *)
(* non-2xx status into an error.  The body is read by json().              *)
(***************************************************************************)
SendError(cause) == [kind |-> "error", cause |-> cause, status |-> 0]
SendResponse(status) == [kind |-> "response", cause |-> "", status |-> status]

SendOutcomes ==
    {SendError("connect"), SendError("timeout"),
     SendResponse(200), SendResponse(500)}

WireBody(json, has_success, success, has_codes, codes) ==
    [json |-> json, has_success |-> has_success, success |-> success,
     has_codes |-> has_codes, codes |-> codes]

NotJson == WireBody(FALSE, FALSE, FALSE, FALSE, <<>>)
NoSuccessField == WireBody(TRUE, FALSE, FALSE, FALSE, <<>>)

CodeLists == {<<>>, <<"invalid-input-response">>}

JsonBodies ==
    {WireBody(TRUE, TRUE, s, FALSE, <<>>) : s \in BOOLEAN}
    \cup {WireBody(TRUE, TRUE, s, TRUE, c) : s \in BOOLEAN, c \in CodeLists}

WireBodies == {NotJson, NoSuccessField} \cup JsonBodies

\* lib.rs 158-163: deserialising VerifyResponse; `success` is required,
\* "error-codes" is optional
DecodeVerifyResponse(body) ==
    IF body.json /\ body.has_success
    THEN [ok |-> TRUE,
          success |-> body.success,
          error_codes |-> IF body.has_codes THEN Some(body.codes) ELSE None]
    ELSE [ok |-> FALSE, success |-> FALSE, error_codes |-> None]

\* verifier.rs 10-17: `.send().await?`
SendResult(outcome) ==
    IF outcome.kind = "error" THEN VErr(outcome.cause) ELSE VOk(TRUE)

\* A verifier that treats a non-empty list of error codes as a failure of
\* the call.
VerifyTail_CodesFail(body) ==
    LET result == DecodeVerifyResponse(body)
    IN  IF ~result.ok
        THEN [verdict |-> VErr("decode"), log |-> <<>>]
        ELSE IF IsSome(result.error_codes) /\ Unwrap(result.error_codes) # <<>>
        THEN [verdict |-> VErr("error-codes"),
              log |-> <<CodesLog(Unwrap(result.error_codes))>>]
        ELSE [verdict |-> VOk(result.success), log |-> <<>>]

\* verifier.rs 19-27: `response.json().await?`, the log of the error codes
\* and the result.  The pair of the result and the lines written to stderr.
VerifyTail(body) ==
    LET result == DecodeVerifyResponse(body)
    IN  IF ~result.ok
        THEN [verdict |-> VErr("decode"), log |-> <<>>]
        ELSE [verdict |-> VOk(result.success),
              log |-> IF ~result.success /\ IsSome(result.error_codes)
                      THEN <<CodesLog(Unwrap(result.error_codes))>>
                      ELSE <<>>]

(***************************************************************************)
(* middleware.rs 59-76: the match on the result of verify_token.           *)
(***************************************************************************)
\* A Gate that rejects only on an error of the verifier.
Decide_FalseForwards(verdict) == IF verdict.ok THEN "forward" ELSE "error"

Decide(verdict) ==
    IF verdict.ok
    THEN IF verdict.value THEN "forward" ELSE "forbid"
    ELSE "error"

\* A Gate that marks the request before looking at the result.
ExtensionWrites_Eager(decision) == <<VerifiedTurnstile>>

\* middleware.rs 62: the writes to the request's extensions on each arm
ExtensionWrites(decision) ==
    IF decision = "forward" THEN <<VerifiedTurnstile>> ELSE <<>>

RECURSIVE ApplyWrites(_, _)
ApplyWrites(extensions, writes) ==
    IF writes = <<>> THEN extensions
    ELSE ApplyWrites(insert(extensions, Head(writes)), Tail(writes))

\* A Gate that turns an error of the next stage into a 500 of its own.
PassThrough_MapErr(result) ==
    IF result.ok THEN result
    ELSE Ok(INTERNAL_SERVER_ERROR, <<Lit("Verification error")>>)

\* middleware.rs 63: `inner.call(req).await` is the value of the future
PassThrough(result) == result

\* middleware.rs 70: what the Err arm writes to stderr
ErrorArmLog(verdict) == <<ErrorLog(verdict.error)>>

(***************************************************************************)
(* One request slot.                                                       *)
(*   pc         idle, called (future created, not polled), sending (await  *)
(*              of send), reading (await of json), inner (await of the     *)
(*              next stage), done, direct (handler reached without Gate),  *)
(*              cancelled (the future was dropped before it finished; the  *)
(*              record is what it held at that moment)                     *)
(*   arrived    the request as it was given to call                        *)
(*   req        the request the future owns                                *)
(*   config     the future's clone of the configuration                    *)
(*   inner      the inner instance moved into the future                   *)
(*   token      the extracted token                                        *)
(*   posts      the POSTs put on the wire                                  *)
(*   verifies   how many times verify_token was entered                    *)
(*   send, wire what the service answered                                  *)
(*   verdict    the result of verify_token                                 *)
(*   log        the lines written to stderr for this request               *)
(*   writes     the writes to the request's extensions                     *)
(*   forwarded  the request handed to the next stage, and on which inner   *)
(*   extracted  the extractor's result in the handler, `after` the parts   *)
(*              it left                                                    *)
(*   produced   what the next stage resolved to                            *)
(*   result     the value the future resolved to                           *)
(***************************************************************************)
NoConfig == new("")

IdleTask ==
    [pc |-> "idle", arrived |-> Request(<<>>, {}), req |-> Request(<<>>, {}),
     config |-> NoConfig, inner |-> 0, token |-> None, posts |-> <<>>,
     verifies |-> 0, send |-> None, wire |-> None, verdict |-> None,
     log |-> <<>>, writes |-> <<>>, forwarded |-> None, calledInner |-> None,
     extracted |-> None, after |-> None, produced |-> None, result |-> None]

\* middleware.rs 59-76 applied to a task whose verify_token returned `v`
\* after writing `lines` to stderr
Dispatch(t, v, lines) ==
    LET d == Decide(v)
        w == ExtensionWrites(d)
        r == [t.req EXCEPT !.extensions = ApplyWrites(@, w)]
        u == [t EXCEPT !.verdict = Some(v), !.writes = w, !.req = r]
    IN  CASE d = "forward" ->
               LET ex == from_request_parts(Parts(r))
               IN  [u EXCEPT !.pc = "inner", !.log = t.log \o lines,
                             !.forwarded = Some(r),
                             !.calledInner = Some(t.inner),
                             !.extracted = Some(ex.result),
                             !.after = Some(ex.parts)]
          [] d = "forbid" ->
               [u EXCEPT !.pc = "done", !.log = t.log \o lines,
                         !.result = Some(ForbiddenResponse)]
          [] OTHER ->
               [u EXCEPT !.pc = "done",
                         !.log = t.log \o lines \o ErrorArmLog(v),
                         !.result = Some(ErrorResponse(v.error))]

(***************************************************************************)
(* Inputs of a request.                                                    *)
(***************************************************************************)
Abc == HeaderValue("abc", TRUE)
Xyz == HeaderValue("xyz", TRUE)
Opaque == HeaderValue("\\xff", FALSE)

RequestHeaders ==
    {<<>>,
     <<Header("cf-turnstile-token", Abc)>>,
     <<Header("cf-turnstile-token", Opaque), Header("cf-turnstile-token", Abc)>>,
     <<Header("x-proof", Abc)>>,
     <<Header("x-proof", Xyz)>>,
     <<Header("x-proof", Xyz), Header("x-proof", Abc)>>,
     <<Header("cf-turnstile-token", Xyz), Header("x-proof", Abc)>>}

Contexts == SUBSET {VerifiedTurnstile, "RequestId"}

InnerResults ==
    {Ok(200, <<Frag("inner", "OK")>>),
     Ok(FORBIDDEN, <<Frag("inner", "no")>>),
     Err("inner failure")}

(***************************************************************************)
(* The Gate after construction: a layer built from a configuration and     *)
(* applied to the inner service, instance 1.  Clone n of the inner service *)
(* is instance n + 1.  `builder` keeps the application's configuration     *)
(* value: the builder calls applied to it after new(secret), and how many  *)
(* of them had been applied when the layer was made.                       *)
(***************************************************************************)
Built(c) == [config |-> c, secret |-> c.secret, calls |-> <<>>, atLayer |-> Some(0)]

InitWith(configs) ==
    /\ \E c \in configs :
         /\ builder = Built(c)
         /\ gate = layer(TurnstileLayer_new(c), 1)
    /\ clones = 0
    /\ ready = {}
    /\ tasks = [r \in Tasks |-> IdleTask]

Init == InitWith(Configs)

(***************************************************************************)
(* middleware.rs 32-34: poll_ready polls the inner service the Gate holds. *)
(* A Pending answer changes nothing.                                       *)
(***************************************************************************)
poll_ready ==
    /\ gate.inner \notin ready
    /\ ready' = ready \cup {gate.inner}
    /\ UNCHANGED <<builder, gate, clones, tasks>>

(***************************************************************************)
(* middleware.rs 36-41: call clones the configuration and the inner        *)
(* service, leaves the clone in the Gate and moves the instance it held    *)
(* into the future.  Nothing of the async block runs yet.  The caller      *)
(* calls only after poll_ready returned Ready (tower's Service contract).  *)
(***************************************************************************)
\* A call that gives the future the new clone and keeps the polled instance.
ReplaceInner_UsesClone(self, clone) == [kept |-> self, moved |-> clone]

\* A call that takes the configuration out of the Gate instead of cloning it.
ReplaceInner_TakesConfig(self, clone) ==
    [kept |-> [inner |-> clone,
               config |-> [secret |-> "", header_name |-> "", verify_url |-> ""]],
     moved |-> self.inner]

ReplaceInner(self, clone) ==
    [kept |-> [self EXCEPT !.inner = clone], moved |-> self.inner]

call(r, headers, contexts) ==
    /\ tasks[r].pc = "idle"
    /\ clones < MaxCalls
    /\ gate.inner \in ready
    /\ LET sw == ReplaceInner(gate, clones + 2)
       IN  /\ gate' = sw.kept
           /\ \E h \in headers, e \in contexts :
                tasks' = [tasks EXCEPT ![r] =
                            [IdleTask EXCEPT !.pc = "called",
                                             !.arrived = Request(h, e),
                                             !.req = Request(h, e),
                                             !.config = gate.config,
                                             !.inner = sw.moved]]
    /\ clones' = clones + 1
    /\ UNCHANGED <<builder, ready>>

\* A Gate that keeps the request to check in a field of its own, which
\* every call overwrites: the first poll reads the headers of the request
\* given to the latest call.
PollExtract_SharedRequest(r) ==
    LET t == tasks[r]
        latest == CHOOSE q \in Tasks : \A o \in Tasks : tasks[o].inner <= tasks[q].inner
        tok == ExtractToken(tasks[latest].arrived.headers, t.config)
    IN  /\ t.pc = "called"
        /\ tasks' = [tasks EXCEPT ![r] =
             IF ~IsSome(tok)
             THEN [t EXCEPT !.pc = "done",
                            !.result = Some(MissingTokenResponse)]
             ELSE LET v == [t EXCEPT !.token = tok, !.verifies = @ + 1]
                  IN  IF ValidUrl(t.config.verify_url)
                      THEN [v EXCEPT !.pc = "sending",
                                     !.posts = @ \o SendPosts(Unwrap(tok), t.config)]
                      ELSE Dispatch(v, VErr("builder"), <<>>)]
        /\ UNCHANGED <<builder, gate, clones, ready>>

\* A Gate that inserts the marker before it asks the verification service.
PollExtract_MarksEarly(r) ==
    LET t == tasks[r]
        tok == ExtractToken(t.req.headers, t.config)
    IN  /\ t.pc = "called"
        /\ tasks' = [tasks EXCEPT ![r] =
             IF ~IsSome(tok)
             THEN [t EXCEPT !.pc = "done",
                            !.result = Some(MissingTokenResponse)]
             ELSE LET v == [t EXCEPT !.token = tok, !.verifies = @ + 1,
                                     !.req.extensions = insert(@, VerifiedTurnstile)]
                  IN  IF ValidUrl(t.config.verify_url)
                      THEN [v EXCEPT !.pc = "sending",
                                     !.posts = @ \o SendPosts(Unwrap(tok), t.config)]
                      ELSE Dispatch(v, VErr("builder"), <<>>)]
        /\ UNCHANGED <<builder, gate, clones, ready>>

(***************************************************************************)
(* middleware.rs 42-59 and verifier.rs 8-17: the first poll of the future  *)
(* extracts the token, answers 400 without one, and otherwise enters       *)
(* verify_token, which posts the VerifyRequest and awaits send().  A URL   *)
(* that does not parse makes send() fail at once, with nothing sent.       *)
(***************************************************************************)
PollExtract(r) ==
    LET t == tasks[r]
        tok == ExtractToken(t.req.headers, t.config)
    IN  /\ t.pc = "called"
        /\ tasks' = [tasks EXCEPT ![r] =
             IF ~IsSome(tok)
             THEN [t EXCEPT !.pc = "done",
                            !.result = Some(MissingTokenResponse)]
             ELSE LET v == [t EXCEPT !.token = tok, !.verifies = @ + 1]
                  IN  IF ValidUrl(t.config.verify_url)
                      THEN [v EXCEPT !.pc = "sending",
                                     !.posts = @ \o SendPosts(Unwrap(tok), t.config)]
                      ELSE Dispatch(v, VErr("builder"), <<>>)]
        /\ UNCHANGED <<builder, gate, clones, ready>>

\* A verifier that sends the POST again whenever sending it failed.
SendResolved_Retries(r, outcomes) ==
    LET t == tasks[r]
    IN  /\ t.pc = "sending"
        /\ \E o \in outcomes :
             LET u == [t EXCEPT !.send = Some(o)]
                 v == SendResult(o)
             IN  tasks' = [tasks EXCEPT ![r] =
                     IF v.ok THEN [u EXCEPT !.pc = "reading"]
                     ELSE [u EXCEPT !.pc = "sending"]]
        /\ UNCHANGED <<builder, gate, clones, ready>>

(***************************************************************************)
(* verifier.rs 16-17: send() resolves.  An error leaves verify_token by    *)
(* `?`; a response of any status goes on to json().                        *)
(***************************************************************************)
SendResolved(r, outcomes) ==
    LET t == tasks[r]
    IN  /\ t.pc = "sending"
        /\ \E o \in outcomes :
             LET u == [t EXCEPT !.send = Some(o)]
                 v == SendResult(o)
             IN  tasks' = [tasks EXCEPT ![r] =
                     IF v.ok THEN [u EXCEPT !.pc = "reading"]
                     ELSE Dispatch(u, v, <<>>)]
        /\ UNCHANGED <<builder, gate, clones, ready>>

(***************************************************************************)
(* verifier.rs 19-27 and middleware.rs 59-76: json() resolves,             *)
(* verify_token returns and the Gate acts on the result.                   *)
(***************************************************************************)
JsonResolved(r, bodies) ==
    LET t == tasks[r]
    IN  /\ t.pc = "reading"
        /\ \E b \in bodies :
             LET vt == VerifyTail(b)
             IN  tasks' = [tasks EXCEPT ![r] =
                     Dispatch([t EXCEPT !.wire = Some(b)], vt.verdict, vt.log)]
        /\ UNCHANGED <<builder, gate, clones, ready>>

(***************************************************************************)
(* middleware.rs 63: the next stage resolves and the future with it.       *)
(***************************************************************************)
InnerResolved(r, results) ==
    LET t == tasks[r]
    IN  /\ t.pc = "inner"
        /\ \E res \in results :
             tasks' = [tasks EXCEPT ![r] =
                     [t EXCEPT !.pc = "done", !.produced = Some(res),
                                !.result = Some(PassThrough(res))]]
        /\ UNCHANGED <<builder, gate, clones, ready>>

(***************************************************************************)
(* lib.rs 169-182 used without the Gate: a handler taking the extractor is *)
(* reached by a request that no TurnstileMiddleware has seen.              *)
(***************************************************************************)
Direct(r, headers, contexts) ==
    /\ tasks[r].pc = "idle"
    /\ \E h \in headers, e \in contexts :
         LET req == Request(h, e)
             ex == from_request_parts(Parts(req))
         IN  tasks' = [tasks EXCEPT ![r] =
                 [IdleTask EXCEPT !.pc = "direct", !.arrived = req, !.req = req,
                                  !.extracted = Some(ex.result),
                                  !.after = Some(ex.parts)]]
    /\ UNCHANGED <<builder, gate, clones, ready>>

(***************************************************************************)
(* The caller takes the result and the future is dropped, and with it the  *)
(* inner instance it owned; the record of a cancelled future is forgotten. *)
(***************************************************************************)
Drop(r) ==
    /\ tasks[r].pc \in {"done", "direct", "cancelled"}
    /\ tasks' = [tasks EXCEPT ![r] = IdleTask]
    /\ ready' = ready \ {tasks[r].inner}
    /\ UNCHANGED <<builder, gate, clones>>

(***************************************************************************)
(* Spec: a caller that awaits each request before the next, as `oneshot`   *)
(* does in the tests of lib.rs.                                            *)
(***************************************************************************)
Quiet(r) == \A q \in Tasks \ {r} : tasks[q].pc = "idle"

CallAlone(r) == Quiet(r) /\ call(r, RequestHeaders, Contexts)

DirectAlone(r) == Quiet(r) /\ Direct(r, {<<>>}, Contexts)

Next ==
    \/ poll_ready
    \/ \E r \in Tasks :
         \/ CallAlone(r)
         \/ PollExtract(r)
         \/ SendResolved(r, SendOutcomes)
         \/ JsonResolved(r, WireBodies)
         \/ InnerResolved(r, InnerResults)
         \/ DirectAlone(r)
         \/ Drop(r)

Spec == Init /\ [][Next]_vars

(***************************************************************************)
(* SpecConc: a server that has several requests in flight through the same *)
(* Gate; their futures are polled in any order.                            *)
(***************************************************************************)
ConcConfigs == {new(s) : s \in Secrets}

ConcHeaders ==
    {<<>>,
     <<Header("cf-turnstile-token", Abc)>>,
     <<Header("cf-turnstile-token", Xyz)>>}

ConcContexts == {{}}

ConcSendOutcomes == {SendError("connect"), SendResponse(200)}

ConcInnerResults == {Ok(200, <<Frag("inner", "OK")>>)}

ConcBodies == {NotJson} \cup JsonBodies

InitConc == InitWith(ConcConfigs)

NextConc ==
    \/ poll_ready
    \/ \E r \in Tasks :
         \/ call(r, ConcHeaders, ConcContexts)
         \/ PollExtract(r)
         \/ SendResolved(r, ConcSendOutcomes)
         \/ JsonResolved(r, ConcBodies)
         \/ InnerResolved(r, ConcInnerResults)
         \/ Drop(r)

SpecConc == InitConc /\ [][NextConc]_vars

(***************************************************************************)
(* Vocabulary of the properties.                                           *)
(***************************************************************************)
Gated(t) == t.pc \in {"called", "sending", "reading", "inner", "done"}

Extracted(t) == t.pc \in {"sending", "reading", "inner", "done"}

VerdictIs(t, v) == IsSome(t.verdict) /\ Unwrap(t.verdict) = v

VerifierFailed(t) == IsSome(t.verdict) /\ ~Unwrap(t.verdict).ok

Status(t) == IF IsSome(t.result) /\ Unwrap(t.result).ok
             THEN Unwrap(t.result).status ELSE 0

ReachedNextStage(t) == IsSome(t.forwarded) \/ IsSome(t.calledInner)
                       \/ IsSome(t.produced)

\* The positions, in the header list of `req`, of the header named by
\* config.header_name, read off the request and not through ExtractToken.
NamedPositions(req, config) ==
    {i \in DOMAIN req.headers :
        /\ config.header_name # ""
        /\ req.headers[i].name = ToLower(config.header_name)}

FirstOf(S) == CHOOSE i \in S : \A j \in S : i <= j

HeaderAbsent(req, config) == NamedPositions(req, config) = {}

HeaderNotAString(req, config) ==
    /\ NamedPositions(req, config) # {}
    /\ ~req.headers[FirstOf(NamedPositions(req, config))].value.ascii

CarriesToken(req, config) ==
    ~HeaderAbsent(req, config) /\ ~HeaderNotAString(req, config)

(***************************************************************************)
(* C1: the next stage is invoked for a request only if verify_token        *)
(* returned Ok(true) for it, and the request it is handed carries the      *)
(* VerifiedTurnstile marker; a request without a token, or with a verdict  *)
(* of Ok(false) or Err, never reaches the next stage.                      *)
(***************************************************************************)
C1_NextStageOnlyWhenVerified ==
    \A r \in Tasks :
        LET t == tasks[r]
        IN  /\ (Gated(t) /\ ReachedNextStage(t)) =>
                  /\ VerdictIs(t, VOk(TRUE))
                  /\ IsSome(t.forwarded)
                  /\ VerifiedTurnstile \in Unwrap(t.forwarded).extensions
            /\ (Gated(t) /\ ~VerdictIs(t, VOk(TRUE))) => ~ReachedNextStage(t)

C1_Witness ==
    \E r \in Tasks :
        /\ tasks[r].pc = "inner"
        /\ VerifiedTurnstile \notin tasks[r].arrived.extensions
        /\ IsSome(tasks[r].forwarded)

(***************************************************************************)
(* C2: a request whose configured header is absent, or whose value is not  *)
(* a string, is answered 400 by the first poll and never reaches the next  *)
(* stage (nor the verifier).                                               *)
(***************************************************************************)
C2_MissingHeaderIs400 ==
    \A r \in Tasks :
        LET t == tasks[r]
        IN  (Gated(t) /\ t.pc # "called"
               /\ (HeaderAbsent(t.arrived, t.config)
                     \/ HeaderNotAString(t.arrived, t.config))) =>
                /\ t.pc = "done"
                /\ Status(t) = 400
                /\ ~ReachedNextStage(t)

C2_Witness ==
    \E r \in Tasks :
        /\ tasks[r].pc = "done"
        /\ HeaderNotAString(tasks[r].arrived, tasks[r].config)
        /\ Status(tasks[r]) = 400

(***************************************************************************)
(* C3: a request that carries a token for which verify_token returns       *)
(* Ok(false) is answered 403 and never reaches the next stage.             *)
(***************************************************************************)
C3_RejectedIs403 ==
    \A r \in Tasks :
        LET t == tasks[r]
        IN  (Gated(t) /\ VerdictIs(t, VOk(FALSE))) =>
                /\ CarriesToken(t.arrived, t.config)
                /\ t.pc = "done"
                /\ Status(t) = 403
                /\ ~ReachedNextStage(t)

C3_Witness ==
    \E r \in Tasks :
        /\ tasks[r].pc = "done"
        /\ VerdictIs(tasks[r], VOk(FALSE))
        /\ IsSome(tasks[r].wire)

(***************************************************************************)
(* C4: when verify_token returns an error, whatever its cause, the         *)
(* response is 500, the next stage is not invoked, and the body holds      *)
(* neither the secret nor the text of the error: it is literal text.       *)
(***************************************************************************)
C4_VerifierErrorIs500 ==
    \A r \in Tasks :
        LET t == tasks[r]
        IN  (Gated(t) /\ VerifierFailed(t)) =>
                /\ t.pc = "done"
                /\ Status(t) = 500
                /\ ~ReachedNextStage(t)
                /\ \A i \in DOMAIN Unwrap(t.result).body :
                       LET f == Unwrap(t.result).body[i]
                       IN  /\ f.src = "literal"
                           /\ f.text # t.config.secret
                           /\ f.text # Unwrap(t.verdict).error

C4_Witness ==
    \E r \in Tasks :
        /\ tasks[r].pc = "done"
        /\ VerdictIs(tasks[r], VErr("timeout"))
        /\ Status(tasks[r]) = 500

(***************************************************************************)
(* C5: a request that carries a token for which verify_token returns       *)
(* Ok(true) is handed to the next stage, the extractor succeeds on it      *)
(* there, and the future resolves to exactly what the next stage resolved  *)
(* to, a response or an error.                                             *)
(***************************************************************************)
C5_VerifiedPassesThrough ==
    \A r \in Tasks :
        LET t == tasks[r]
        IN  (Gated(t) /\ VerdictIs(t, VOk(TRUE))) =>
                /\ CarriesToken(t.arrived, t.config)
                /\ t.pc \in {"inner", "done"}
                /\ IsSome(t.forwarded)
                /\ IsSome(t.extracted) /\ Unwrap(t.extracted).ok
                /\ t.pc = "done" => (IsSome(t.produced) /\ t.result = t.produced)

C5_Witness ==
    \E r \in Tasks :
        /\ tasks[r].pc = "done"
        /\ VerdictIs(tasks[r], VOk(TRUE))
        /\ tasks[r].produced = Some(Err("inner failure"))

(***************************************************************************)
(* C6: run on a request whose extensions hold no VerifiedTurnstile, the    *)
(* extractor fails with 401; it succeeds only when the marker is there;    *)
(* and it leaves the parts as it found them.                               *)
(***************************************************************************)
C6_ExtractorFailsClosed ==
    \A r \in Tasks :
        LET t == tasks[r]
        IN  IsSome(t.extracted) =>
                /\ VerifiedTurnstile \notin t.req.extensions =>
                       Unwrap(t.extracted) = [ok |-> FALSE, status |-> 401]
                /\ Unwrap(t.extracted).ok <=>
                       VerifiedTurnstile \in t.req.extensions
                /\ t.after = Some(Parts(t.req))

C6_Witness ==
    \E r \in Tasks :
        /\ tasks[r].pc = "direct"
        /\ VerifiedTurnstile \notin tasks[r].req.extensions
        /\ IsSome(tasks[r].extracted)
        /\ ~Unwrap(tasks[r].extracted).ok

(***************************************************************************)
(* C7, as claimed: every request the Gate has answered caused exactly one  *)
(* verification call, never zero, on every path.                           *)
(***************************************************************************)
C7_ExactlyOneCallOnEveryPath ==
    \A r \in Tasks :
        tasks[r].pc = "done" => tasks[r].verifies = 1

(***************************************************************************)
(* C7, amended: a request that carries a readable token enters             *)
(* verify_token exactly once, and verify_token posts once, without retry   *)
(* (nothing is posted when verify_url does not parse); a request answered  *)
(* 400 for its header causes no verification call at all.                  *)
(***************************************************************************)
C7_OneCallPerToken ==
    \A r \in Tasks :
        LET t == tasks[r]
        IN  Gated(t) =>
              /\ t.verifies <= 1 /\ Len(t.posts) <= 1
              /\ (Extracted(t) /\ CarriesToken(t.arrived, t.config)) =>
                     /\ t.verifies = 1
                     /\ Len(t.posts) = IF ValidUrl(t.config.verify_url) THEN 1 ELSE 0
              /\ (Extracted(t) /\ ~CarriesToken(t.arrived, t.config)) =>
                     /\ Status(t) = 400
                     /\ t.verifies = 0 /\ t.posts = <<>>

C7_Witness ==
    \E r \in Tasks :
        /\ tasks[r].pc = "done"
        /\ Status(tasks[r]) = 403
        /\ Len(tasks[r].posts) = 1

(***************************************************************************)
(* C8: on the success path the Gate writes the request's extensions once,  *)
(* the marker, and hands the next stage the request it was given with that *)
(* one addition; on the 400, 403 and 500 paths it writes nothing and the   *)
(* request is as it arrived.                                               *)
(***************************************************************************)
C8_OnlyTheMarkerIsAdded ==
    \A r \in Tasks :
        LET t == tasks[r]
        IN  Gated(t) =>
              /\ IsSome(t.forwarded) =>
                   /\ t.writes = <<VerifiedTurnstile>>
                   /\ Unwrap(t.forwarded) =
                        [t.arrived EXCEPT
                           !.extensions = t.arrived.extensions \cup {VerifiedTurnstile}]
              /\ ~IsSome(t.forwarded) =>
                   /\ t.writes = <<>>
                   /\ t.req = t.arrived
              /\ (t.pc = "done" /\ Status(t) \in {400, 403, 500}
                    /\ ~IsSome(t.produced)) =>
                   /\ ~IsSome(t.forwarded)
                   /\ t.req.extensions = t.arrived.extensions

C8_Witness ==
    \E r \in Tasks :
        /\ tasks[r].pc = "inner"
        /\ tasks[r].arrived.extensions = {"RequestId"}
        /\ Unwrap(tasks[r].forwarded).extensions = {"RequestId", VerifiedTurnstile}

(***************************************************************************)
(* C9, as claimed: whenever the exchange with the service fails at         *)
(* transport level (send error, or a response that is not 2xx) or the body *)
(* cannot be decoded, verify_token returns an error and the Gate answers   *)
(* 500, never 403 or the next stage.                                       *)
(***************************************************************************)
Is2xx(status) == status >= 200 /\ status <= 299

Decodable(body) == body.json /\ body.has_success

ExchangeFailed(t) ==
    \/ IsSome(t.send) /\ Unwrap(t.send).kind = "error"
    \/ IsSome(t.send) /\ Unwrap(t.send).kind = "response"
                      /\ ~Is2xx(Unwrap(t.send).status)
    \/ IsSome(t.wire) /\ ~Decodable(Unwrap(t.wire))

C9_FailedExchangeIsAnError ==
    \A r \in Tasks :
        LET t == tasks[r]
        IN  (Gated(t) /\ ExchangeFailed(t) /\ IsSome(t.verdict)) =>
                /\ VerifierFailed(t)
                /\ Status(t) = 500
                /\ ~ReachedNextStage(t)

(***************************************************************************)
(* C10: when the body decodes, verify_token returns Ok(success); with      *)
(* success false that is Ok(false) and a 403 whether the error codes are   *)
(* absent, empty or not; the codes reach stderr only; and two requests     *)
(* that differ only in the error codes the service returned get the same   *)
(* result.                                                                 *)
(***************************************************************************)
SameButCodes(a, b) ==
    /\ a.json = b.json
    /\ a.has_success = b.has_success
    /\ a.success = b.success

C10_ErrorCodesAreLogOnly ==
    /\ \A r \in Tasks :
         LET t == tasks[r]
         IN  (Gated(t) /\ IsSome(t.wire) /\ Decodable(Unwrap(t.wire))) =>
               LET w == Unwrap(t.wire)
               IN  /\ VerdictIs(t, VOk(w.success))
                   /\ ~w.success => (t.pc = "done" /\ Status(t) = 403)
                   /\ IsSome(t.result) =>
                        \A i \in DOMAIN Unwrap(t.result).body :
                            Unwrap(t.result).body[i].src # "error-codes"
                   /\ \A i \in DOMAIN t.log :
                        t.log[i].src = "error-codes" =>
                            (~w.success /\ w.has_codes /\ t.log[i].codes = w.codes)
    /\ \A p, q \in Tasks :
         LET a == tasks[p]
             b == tasks[q]
         IN  (/\ a.pc = "done" /\ b.pc = "done"
              /\ a.arrived = b.arrived /\ a.config = b.config
              /\ a.send = b.send
              /\ IsSome(a.wire) /\ IsSome(b.wire)
              /\ Decodable(Unwrap(a.wire)) /\ Decodable(Unwrap(b.wire))
              /\ SameButCodes(Unwrap(a.wire), Unwrap(b.wire))
              /\ a.produced = b.produced) =>
                 a.result = b.result

C10_Witness ==
    \E p, q \in Tasks :
        /\ tasks[p].pc = "done" /\ tasks[q].pc = "done"
        /\ tasks[p].arrived = tasks[q].arrived
        /\ IsSome(tasks[p].wire) /\ IsSome(tasks[q].wire)
        /\ Unwrap(tasks[p].wire) = WireBody(TRUE, TRUE, FALSE, FALSE, <<>>)
        /\ Unwrap(tasks[q].wire) =
              WireBody(TRUE, TRUE, FALSE, TRUE, <<"invalid-input-response">>)
        /\ Status(tasks[p]) = 403 /\ Status(tasks[q]) = 403
        /\ tasks[q].log # <<>>

(***************************************************************************)
(* C11: the token posted for verification is the value of the header named *)
(* config.header_name of the same request, posted with config.secret to    *)
(* config.verify_url, and the configuration is the Gate's.  With           *)
(* header_name X-Proof and a service that accepts only abc, X-Proof: abc   *)
(* reaches the next stage and resolves to its result, X-Proof: xyz is      *)
(* answered 403; a token in another header is not read.                    *)
(***************************************************************************)
ExpectedToken(req, config) ==
    req.headers[FirstOf(NamedPositions(req, config))].value.text

\* The service decides by the token it was sent: success iff it is abc.
AcceptsOnlyAbc(t) ==
    /\ t.posts # <<>>
    /\ IsSome(t.send) /\ Unwrap(t.send).kind = "response"
    /\ IsSome(t.wire) /\ Decodable(Unwrap(t.wire))
    /\ Unwrap(t.wire).success = (t.posts[1].json.response = "abc")

C11_TokenIsTheConfiguredHeader ==
    \A r \in Tasks :
        LET t == tasks[r]
            want == ExpectedToken(t.arrived, t.config)
        IN  Gated(t) =>
              /\ t.config = gate.config
              /\ (Extracted(t) /\ CarriesToken(t.arrived, t.config)) =>
                   /\ t.token = Some(want)
                   /\ \A i \in DOMAIN t.posts :
                        t.posts[i] =
                           [url |-> t.config.verify_url,
                            json |-> [secret |-> t.config.secret,
                                      response |-> want]]
              /\ (Extracted(t) /\ ~CarriesToken(t.arrived, t.config)) =>
                   /\ t.token = None /\ t.posts = <<>>
                   /\ Status(t) = 400
              /\ (t.config.header_name = "X-Proof" /\ AcceptsOnlyAbc(t)) =>
                   /\ want = "abc" =>
                        /\ ReachedNextStage(t)
                        /\ t.pc = "done" => t.result = t.produced
                   /\ want = "xyz" => (t.pc = "done" /\ Status(t) = 403)

C11_Witness ==
    \E r \in Tasks :
        LET t == tasks[r]
        IN  /\ t.pc = "inner"
            /\ t.config.header_name = "X-Proof"
            /\ t.arrived.headers =
                  <<Header("cf-turnstile-token", Xyz), Header("x-proof", Abc)>>
            /\ AcceptsOnlyAbc(t)
            /\ t.posts[1].json.response = "abc"

(***************************************************************************)
(* C12: a request repeated through the same Gate, with the service and the *)
(* next stage answering as before, resolves to the same result every time; *)
(* every request runs with the configuration the Gate was built with,      *)
(* however many requests the Gate has handled before it.                   *)
(***************************************************************************)
C12_RepeatedRequestSameOutcome ==
    /\ \A r \in Tasks :
         Gated(tasks[r]) =>
            (tasks[r].config = gate.config /\ gate.config = builder.config)
    /\ \A p, q \in Tasks :
         LET a == tasks[p]
             b == tasks[q]
         IN  (/\ a.pc = "done" /\ b.pc = "done"
              /\ a.arrived = b.arrived
              /\ a.send = b.send /\ a.wire = b.wire
              /\ a.produced = b.produced) =>
                 /\ a.result = b.result
                 /\ a.verdict = b.verdict
                 /\ a.posts = b.posts
                 /\ a.req = b.req

C12_Witness ==
    \E p, q \in Tasks :
        LET a == tasks[p]
            b == tasks[q]
        IN  /\ a.pc = "done" /\ b.pc = "done"
            /\ a.inner < b.inner
            /\ a.arrived = b.arrived /\ a.wire = b.wire /\ IsSome(a.wire)
            /\ Status(a) = 403 /\ Status(b) = 403

(***************************************************************************)
(* C13: with several requests in flight through the same Gate, in every    *)
(* interleaving of their steps, what a request has got so far (its token,  *)
(* its POST, its verdict, its marker, its result) is what its own headers  *)
(* and the answers to its own verification call prescribe; nothing of it   *)
(* comes from another request.                                             *)
(***************************************************************************)
\* The verdict prescribed by the answers a task itself received.
OwnVerdict(t) ==
    IF ~ValidUrl(t.config.verify_url) THEN VErr("builder")
    ELSE IF IsSome(t.send) /\ Unwrap(t.send).kind = "error"
    THEN VErr(Unwrap(t.send).cause)
    ELSE IF IsSome(t.wire) /\ ~Decodable(Unwrap(t.wire)) THEN VErr("decode")
    ELSE IF IsSome(t.wire) THEN VOk(Unwrap(t.wire).success)
    ELSE VErr("pending")

C13_OutcomeDependsOnOwnInputs ==
    \A r \in Tasks :
        LET t == tasks[r]
            has == CarriesToken(t.arrived, t.config)
            verified == IsSome(t.verdict) /\ OwnVerdict(t) = VOk(TRUE)
        IN  (Gated(t) /\ Extracted(t)) =>
              /\ t.token = IF has THEN Some(ExpectedToken(t.arrived, t.config))
                           ELSE None
              /\ \A i \in DOMAIN t.posts :
                    t.posts[i].json.response = ExpectedToken(t.arrived, t.config)
              /\ ~has => (t.pc = "done" /\ Status(t) = 400 /\ t.verdict = None)
              /\ IsSome(t.verdict) => Unwrap(t.verdict) = OwnVerdict(t)
              /\ t.req.extensions =
                    IF verified THEN t.arrived.extensions \cup {VerifiedTurnstile}
                    ELSE t.arrived.extensions
              /\ ReachedNextStage(t) <=> verified
              /\ (t.pc = "done" /\ has) =>
                    /\ IsSome(t.verdict)
                    /\ ~OwnVerdict(t).ok => Status(t) = 500
                    /\ OwnVerdict(t) = VOk(FALSE) => Status(t) = 403
                    /\ OwnVerdict(t) = VOk(TRUE) => t.result = t.produced

C13_Witness ==
    \E p, q \in Tasks :
        LET a == tasks[p]
            b == tasks[q]
        IN  /\ a.pc = "done" /\ Status(a) = 403 /\ a.token = Some("abc")
            /\ b.pc = "inner" /\ b.token = Some("xyz")
            /\ VerifiedTurnstile \notin a.req.extensions
            /\ VerifiedTurnstile \in b.req.extensions

(***************************************************************************)
(* SpecConfig: the application building its configuration (lib.rs 129-150) *)
(* and then the Gate (layer.rs 12-27).  builder.calls records the builder  *)
(* calls made so far, builder.atLayer how many had been made when the      *)
(* layer built the Gate.  The application may keep a clone of the          *)
(* configuration and go on calling builders on it after the Gate exists.   *)
(***************************************************************************)
MaxBuilderCalls == 3

BuilderNames == HeaderNameArgs
BuilderUrls == VerifyUrlArgs \cup {"http://localhost:9/siteverify"}

InitConfig ==
    /\ \E s \in Secrets :
         builder = [config |-> new(s), secret |-> s, calls |-> <<>>,
                    atLayer |-> None]
    /\ gate = None
    /\ clones = 0
    /\ ready = {}
    /\ tasks = [r \in Tasks |-> IdleTask]

WithHeaderName(names) ==
    /\ Len(builder.calls) < MaxBuilderCalls
    /\ \E n \in names :
         builder' = [builder EXCEPT
                       !.config = with_header_name(@, n),
                       !.calls = Append(@, [op |-> "with_header_name", arg |-> n])]
    /\ UNCHANGED <<gate, clones, ready, tasks>>

WithVerifyUrl(urls) ==
    /\ Len(builder.calls) < MaxBuilderCalls
    /\ \E u \in urls :
         builder' = [builder EXCEPT
                       !.config = with_verify_url(@, u),
                       !.calls = Append(@, [op |-> "with_verify_url", arg |-> u])]
    /\ UNCHANGED <<gate, clones, ready, tasks>>

Layer ==
    /\ ~IsSome(builder.atLayer)
    /\ gate' = layer(TurnstileLayer_new(builder.config), 1)
    /\ builder' = [builder EXCEPT !.atLayer = Some(Len(builder.calls))]
    /\ UNCHANGED <<clones, ready, tasks>>

NextConfig ==
    \/ WithHeaderName(BuilderNames)
    \/ WithVerifyUrl(BuilderUrls)
    \/ Layer

SpecConfig == InitConfig /\ [][NextConfig]_vars

(***************************************************************************)
(* C14: every configuration reachable through new, with_header_name and    *)
(* with_verify_url has a non-empty header_name and a non-empty verify_url. *)
(* The builders store their argument as given (lib.rs 140-149), so this is *)
(* violated by new(s).with_header_name("").                                *)
(***************************************************************************)
C14_HeaderNameAndUrlNonEmpty ==
    /\ builder.config.header_name # ""
    /\ builder.config.verify_url # ""

(***************************************************************************)
(* C15: new(secret) gives the secret, the header name "CF-Turnstile-Token" *)
(* and the default URL; after any sequence of builder calls the secret is  *)
(* the one given to new, header_name is the argument of the last           *)
(* with_header_name (the default if there was none) and verify_url the     *)
(* argument of the last with_verify_url (the default if there was none);   *)
(* the Gate's configuration is the one of the moment the layer built it,   *)
(* whatever is called on the application's configuration afterwards.       *)
(***************************************************************************)
LastArg(calls, op, default) ==
    LET at == {i \in DOMAIN calls : calls[i].op = op}
    IN  IF at = {} THEN default
        ELSE calls[CHOOSE i \in at : \A j \in at : j <= i].arg

Expected(secret, calls) ==
    [secret |-> secret,
     header_name |-> LastArg(calls, "with_header_name", "CF-Turnstile-Token"),
     verify_url |-> LastArg(calls, "with_verify_url",
                     "https://challenges.cloudflare.com/turnstile/v0/siteverify")]

C15_BuildersChangeOnlyTheirField ==
    /\ builder.config = Expected(builder.secret, builder.calls)
    /\ IsSome(builder.atLayer) =>
          gate.config = Expected(builder.secret,
                                 SubSeq(builder.calls, 1, Unwrap(builder.atLayer)))

C15_Witness ==
    /\ Len(builder.calls) = 3
    /\ builder.calls[1].op = "with_header_name" /\ builder.calls[1].arg = "X-Proof"
    /\ builder.calls[2].op = "with_verify_url"
    /\ builder.calls[3].op = "with_header_name" /\ builder.calls[3].arg = ""
    /\ builder.atLayer = Some(2)
    /\ gate.config.header_name = "X-Proof"
    /\ gate.config # builder.config

(***************************************************************************)
(* C16: a result the Gate makes itself (one that is not the next stage's)  *)
(* is a response, never an error, with status 400, 403 or 500 and never    *)
(* 401: 400 exactly when the request carries no readable token header, 403 *)
(* exactly when verify_token returned Ok(false), 500 exactly when it       *)
(* returned Err.  A finished request has exactly one result, the Gate's    *)
(* own or the one the next stage produced, and takes no further step: its  *)
(* record stays as it is until the caller drops the future.                *)
(***************************************************************************)
GateMade(t) == t.pc = "done" /\ ~ReachedNextStage(t)

C16_Outcome(t) ==
    /\ t.pc = "done" => IsSome(t.result)
    /\ t.pc \in {"called", "sending", "reading", "inner"} => ~IsSome(t.result)
    /\ (t.pc = "done" /\ ReachedNextStage(t)) =>
          (IsSome(t.produced) /\ t.result = t.produced)
    /\ GateMade(t) =>
          /\ Unwrap(t.result).ok
          /\ Status(t) \in {400, 403, 500}
          /\ Status(t) # 401
          /\ Status(t) = 400 <=> ~CarriesToken(t.arrived, t.config)
          /\ Status(t) = 403 <=> VerdictIs(t, VOk(FALSE))
          /\ Status(t) = 500 <=> VerifierFailed(t)

C16_NoStepAfterOutcome(r) ==
    tasks[r].pc = "done" => (tasks'[r] = tasks[r] \/ tasks'[r] = IdleTask)

C16_GateOutcomesAreTerminal ==
    [][\A r \in Tasks : C16_Outcome(tasks'[r]) /\ C16_NoStepAfterOutcome(r)]_vars

C16_Witness ==
    \E r \in Tasks :
        /\ GateMade(tasks[r])
        /\ Status(tasks[r]) = 500
        /\ CarriesToken(tasks[r].arrived, tasks[r].config)
        /\ VerdictIs(tasks[r], VErr("decode"))

(***************************************************************************)
(* SpecCancel: SpecConc with callers that may drop the future of a request *)
(* before it has finished (a client that disconnects, a timeout around the *)
(* service).  A dropped future is never polled again; what it owned (its   *)
(* request, its clone of the configuration, its inner instance,            *)
(* middleware.rs 37-41) is dropped with it.  The Gate is not referenced by *)
(* the future.                                                             *)
(***************************************************************************)
SmallHeaders == {<<>>, <<Header("cf-turnstile-token", Abc)>>}

SmallBodies ==
    {NotJson,
     WireBody(TRUE, TRUE, TRUE, FALSE, <<>>),
     WireBody(TRUE, TRUE, FALSE, FALSE, <<>>)}

Cancel(r) ==
    /\ tasks[r].pc \in {"called", "sending", "reading", "inner"}
    /\ tasks' = [tasks EXCEPT ![r].pc = "cancelled"]
    /\ ready' = ready \ {tasks[r].inner}
    /\ UNCHANGED <<builder, gate, clones>>

NextCancel ==
    \/ poll_ready
    \/ \E r \in Tasks :
         \/ call(r, SmallHeaders, ConcContexts)
         \/ PollExtract(r)
         \/ SendResolved(r, ConcSendOutcomes)
         \/ JsonResolved(r, SmallBodies)
         \/ InnerResolved(r, ConcInnerResults)
         \/ Cancel(r)
         \/ Drop(r)

SpecCancel == InitConc /\ [][NextCancel]_vars

(***************************************************************************)
(* C17: a request whose future is dropped while its verification call is   *)
(* in flight (the POST is sent, verify_token has not returned) never       *)
(* reaches the next stage, has nothing inserted in its extensions and gets *)
(* no result; dropping it leaves the Gate, its configuration and every     *)
(* other request untouched, and every other request, the later ones        *)
(* included, runs with the Gate's configuration and comes to the outcome   *)
(* its own inputs prescribe.                                               *)
(***************************************************************************)
CancelledInVerification(t) ==
    t.pc = "cancelled" /\ t.posts # <<>> /\ ~IsSome(t.verdict)

C17_CancelledState ==
    /\ \A r \in Tasks :
         LET t == tasks[r]
         IN  /\ CancelledInVerification(t) =>
                  /\ ~ReachedNextStage(t)
                  /\ t.writes = <<>>
                  /\ t.req.extensions = t.arrived.extensions
                  /\ ~IsSome(t.result)
             /\ Gated(t) => t.config = builder.config
    /\ gate.config = builder.config
    /\ C13_OutcomeDependsOnOwnInputs

C17_CancelStep ==
    \A r \in Tasks :
        (tasks[r].pc # "cancelled" /\ tasks'[r].pc = "cancelled") =>
            /\ gate' = gate /\ builder' = builder /\ clones' = clones
            /\ \A q \in Tasks \ {r} : tasks'[q] = tasks[q]
            /\ gate.inner \in ready <=> gate'.inner \in ready'

C17_CancellationLeavesNoTrace ==
    [][C17_CancelledState' /\ C17_CancelStep]_vars

C17_Witness ==
    \E p, q \in Tasks :
        /\ CancelledInVerification(tasks[p])
        /\ tasks[p].pc = "cancelled" /\ IsSome(tasks[p].send)
        /\ tasks[q].inner > tasks[p].inner
        /\ tasks[q].pc = "done"
        /\ IsSome(tasks[q].produced) /\ tasks[q].result = tasks[q].produced

(***************************************************************************)
(* SpecLive: the concurrent server under fair scheduling.  Advance(r) is   *)
(* the next step of the future of request r, whichever await it stands at: *)
(* the executor polls it, send() resolves with an answer or a failure,     *)
(* json() resolves, the next stage returns.  Weak fairness of Advance(r)   *)
(* says that a future which can take its next step eventually takes it;    *)
(* nothing is assumed about when callers call, poll_ready or drop.         *)
(***************************************************************************)
LiveSendOutcomes ==
    {SendError("connect"), SendError("timeout"), SendResponse(200)}

Advance(r) ==
    \/ PollExtract(r)
    \/ SendResolved(r, LiveSendOutcomes)
    \/ JsonResolved(r, SmallBodies)
    \/ InnerResolved(r, ConcInnerResults)

NextLive ==
    \/ poll_ready
    \/ \E r \in Tasks :
         \/ call(r, SmallHeaders, ConcContexts)
         \/ Advance(r)
         \/ Drop(r)

Fairness == \A r \in Tasks : WF_vars(Advance(r))

SpecLive == InitConc /\ [][NextLive]_vars /\ Fairness

(***************************************************************************)
(* C18: under fair scheduling, with a verification service that eventually *)
(* answers or fails and a next stage that eventually returns, every        *)
(* request given to the Gate eventually completes with a result; the Gate  *)
(* has no step that sends a request back to an earlier await.              *)
(***************************************************************************)
InFlight(t) == t.pc \in {"called", "sending", "reading", "inner"}

C18_EveryRequestCompletes ==
    \A r \in Tasks :
        InFlight(tasks[r]) ~> (tasks[r].pc = "done" /\ IsSome(tasks[r].result))

C18_Witness ==
    \E p, q \in Tasks :
        /\ tasks[p].pc = "done"
        /\ IsSome(tasks[p].produced) /\ tasks[p].result = tasks[p].produced
        /\ tasks[q].pc = "done" /\ Status(tasks[q]) = 500
        /\ IsSome(tasks[q].send) /\ Unwrap(tasks[q].send).kind = "error"

(***************************************************************************)
(* C19: poll_ready drives the inner instance the Gate holds at that        *)
(* moment; call moves that instance into the request's future and leaves   *)
(* in the Gate a new clone that has not been polled.  So the instance a    *)
(* future owns, and invokes on the success path, is one that reported      *)
(* ready, and no instance is owned by two requests in flight or by a       *)
(* request and the Gate.                                                   *)
(***************************************************************************)
Owns(t) == Gated(t)

C19_Instances ==
    \A r \in Tasks :
         LET t == tasks[r]
         IN  Owns(t) =>
               /\ t.inner \in ready
               /\ t.inner # gate.inner
               /\ IsSome(t.calledInner) => t.calledInner = Some(t.inner)
               /\ \A q \in Tasks \ {r} : Owns(tasks[q]) => tasks[q].inner # t.inner

C19_ReadyStep ==
    ready' # ready /\ tasks' = tasks => (gate' = gate /\ ready' = ready \cup {gate.inner})

C19_CallStep ==
    \A r \in Tasks :
        (tasks[r].pc = "idle" /\ tasks'[r].pc = "called") =>
            /\ gate.inner \in ready
            /\ tasks'[r].inner = gate.inner
            /\ gate'.inner # gate.inner
            /\ gate'.inner \notin ready'
            /\ \A q \in Tasks : gate'.inner # tasks[q].inner

C19_ReadinessHandshake ==
    [][C19_Instances' /\ C19_ReadyStep /\ C19_CallStep]_vars

C19_Witness ==
    \E p, q \in Tasks :
        /\ tasks[p].pc = "inner" /\ tasks[q].pc = "inner"
        /\ tasks[p].inner # tasks[q].inner
        /\ tasks[p].calledInner = Some(tasks[p].inner)
        /\ tasks[q].calledInner = Some(tasks[q].inner)
        /\ {tasks[p].inner, tasks[q].inner} \subseteq ready
        /\ gate.inner \notin ready

=============================================================================
